---- MODULE Spec2Model ----
(***************************************************************************)
(* may_http server core: the zero-copy request decoder (request.rs         *)
(* decode), the request accessors, header lookup, body-reader selection    *)
(* (Request::set_reader) and the Expect/Continue step (mod.rs              *)
(* handle_expect), modelled over one connection whose peer delivers a      *)
(* byte stream in arbitrary chunks.                                        *)
(*                                                                         *)
(* A byte is a one-character string.  A byte range (Slice) is a pair       *)
(* <<start, end>> of 0-based offsets, as in the source.                    *)
(***************************************************************************)
EXTENDS Integers, Sequences, FiniteSets, TLC

VARIABLES
    stream,   \* every byte the peer sends on this connection, in order
    nsent,    \* how many bytes of stream the transport has delivered so far
    buf,      \* the accumulation buffer (BytesMut) handed to decode
    req,      \* the Request built by the last Complete decode
    task,     \* the connection task: "await", "have", "closed", "panicked"
    last,     \* the last call made on the connection and what it returned
    out,      \* what has been written to the raw response stream
    sentReq,  \* what the peer encoded as the first request head
    ndecoded, \* how many request heads decode has completed
    retried   \* decode found the head it last worked on Incomplete before,
              \* on a buffer that already held some of its bytes

vars ==
    <<stream, nsent, buf, req, task, last, out, sentReq, ndecoded, retried>>

\* ------------------------------------------------------------------ bounds

\* Longest header list the modelled peer puts in the first request head.
MaxHdrs == 2

\* The header array decode hands to the tokenizer.
MaxHeaders == 64

\* ------------------------------------------------------------------- bytes

CR == "\r"
LF == "\n"
SP == " "
HT == "\t"
CRLF == <<CR, LF>>

\* Separators and controls of RFC 7230: everything that is not a token byte.
NonToken ==
    {CR, LF, SP, HT, "(", ")", "<", ">", "@", ",", ";", ":", "\\", "\"",
     "/", "[", "]", "?", "=", "{", "}"}

is_token(b) == b \notin NonToken
is_uri_token(b) == b \notin {CR, LF, SP, HT, "<", ">", "\""}
is_header_name_token(b) == b \notin NonToken
is_header_value_token(b) == b \notin {CR, LF}

\* ------------------------------------------------ the tokenizer (httparse)

\* A sub-slice handed back by the tokenizer: where it starts in the buffer
\* it parsed, and its length.
Sub(off, len) == [off |-> off, len |-> len]
NoSub == Sub(0, 0)

PResult(st, amt, m, p, v, hs) ==
    [status |-> st, amt |-> amt, method |-> m, path |-> p, version |-> v,
     headers |-> hs]
PPartial == PResult("Partial", 0, NoSub, NoSub, 0, <<>>)
PError == PResult("Error", 0, NoSub, NoSub, 0, <<>>)

\* Positions are 1-based indexes into b; At(b, i) is the byte there, or
\* "EOF" past the end.
At(b, i) == IF i <= Len(b) THEN b[i] ELSE "EOF"

\* Leading empty lines before the request line are skipped; the result is
\* the index of the first byte of the method, 0 for Partial, -1 for Error.
RECURSIVE skip_empty_lines(_, _)
skip_empty_lines(b, i) ==
    CASE At(b, i) = "EOF" -> 0
      [] At(b, i) = CR ->
            IF At(b, i + 1) = "EOF" THEN 0
            ELSE IF At(b, i + 1) = LF THEN skip_empty_lines(b, i + 2)
            ELSE -1
      [] At(b, i) = LF -> skip_empty_lines(b, i + 1)
      [] OTHER -> i

\* Scan a method token: the index of the space that ends it, 0 for Partial,
\* -1 for Error.
RECURSIVE parse_token(_, _)
parse_token(b, i) ==
    CASE At(b, i) = "EOF" -> 0
      [] At(b, i) = SP -> i
      [] ~is_token(At(b, i)) -> -1
      [] OTHER -> parse_token(b, i + 1)

RECURSIVE parse_uri(_, _)
parse_uri(b, i) ==
    CASE At(b, i) = "EOF" -> 0
      [] At(b, i) = SP -> i
      [] ~is_uri_token(At(b, i)) -> -1
      [] OTHER -> parse_uri(b, i + 1)

HttpPrefix == <<"H", "T", "T", "P", "/", "1", ".">>

\* The version: 0 or 1 for HTTP/1.0 and HTTP/1.1, -2 for Partial, -1 for
\* Error.  The bytes are matched one by one, so a prefix of a valid version
\* is Partial and a wrong byte is an Error as soon as it is seen.
RECURSIVE parse_version(_, _, _)
parse_version(b, i, k) ==
    CASE At(b, i + k) = "EOF" -> -2
      [] k < 7 -> IF At(b, i + k) = HttpPrefix[k + 1]
                  THEN parse_version(b, i, k + 1) ELSE -1
      [] At(b, i + k) = "0" -> 0
      [] At(b, i + k) = "1" -> 1
      [] OTHER -> -1

\* A line end at i: the index after it, 0 for Partial, -1 for Error.
newline(b, i) ==
    CASE At(b, i) = "EOF" -> 0
      [] At(b, i) = CR ->
            IF At(b, i + 1) = "EOF" THEN 0
            ELSE IF At(b, i + 1) = LF THEN i + 2 ELSE -1
      [] At(b, i) = LF -> i + 1
      [] OTHER -> -1

RECURSIVE scan_name(_, _)
scan_name(b, i) ==
    CASE At(b, i) = "EOF" -> 0
      [] At(b, i) = ":" -> i
      [] ~is_header_name_token(At(b, i)) -> -1
      [] OTHER -> scan_name(b, i + 1)

RECURSIVE skip_ws(_, _)
skip_ws(b, i) ==
    IF At(b, i) \in {SP, HT} THEN skip_ws(b, i + 1) ELSE i

RECURSIVE scan_value(_, _)
scan_value(b, i) ==
    CASE At(b, i) = "EOF" -> 0
      [] is_header_value_token(At(b, i)) -> scan_value(b, i + 1)
      [] OTHER -> i

\* One header line whose name ends at the colon at index c, whose value
\* starts at v and ends before w, and whose line end leads to e.
header_end(i, c, v, w, e) ==
    IF e = 0 THEN [st |-> "Partial", nxt |-> 0, h |-> <<NoSub, NoSub>>]
    ELSE IF e = -1 THEN [st |-> "Error", nxt |-> 0, h |-> <<NoSub, NoSub>>]
    ELSE [st |-> "ok", nxt |-> e, h |-> <<Sub(i - 1, c - i), Sub(v - 1, w - v)>>]

header_value(b, i, c, v, w) ==
    IF w = 0 THEN [st |-> "Partial", nxt |-> 0, h |-> <<NoSub, NoSub>>]
    ELSE header_end(i, c, v, w, newline(b, w))

header_name(b, i, c) ==
    IF c = 0 THEN [st |-> "Partial", nxt |-> 0, h |-> <<NoSub, NoSub>>]
    ELSE IF c = -1 THEN [st |-> "Error", nxt |-> 0, h |-> <<NoSub, NoSub>>]
    ELSE header_value(b, i, c, skip_ws(b, c + 1),
                      scan_value(b, skip_ws(b, c + 1)))

\* The header line that starts at index i.
header_line(b, i) == header_name(b, i, scan_name(b, i))

\* The end of the header block: the empty line at index i.
headers_done(e, hs) ==
    IF e = 0 THEN PPartial
    ELSE IF e = -1 THEN PError
    ELSE PResult("Complete", e - 1, NoSub, NoSub, 0, hs)

\* The header block from index i on, hs being the headers read so far.
\* The result is a tokenizer result whose method, path and version the
\* caller fills in.
RECURSIVE parse_headers_iter(_, _, _)
headers_step(b, hs, l) ==
    IF l.st = "Partial" THEN PPartial
    ELSE IF l.st = "Error" THEN PError
    ELSE parse_headers_iter(b, l.nxt, Append(hs, l.h))

parse_headers_iter(b, i, hs) ==
    CASE At(b, i) = "EOF" -> PPartial
      [] At(b, i) \in {CR, LF} -> headers_done(newline(b, i), hs)
      [] ~is_header_name_token(At(b, i)) -> PError
      [] Len(hs) >= MaxHeaders -> PError
      [] OTHER -> headers_step(b, hs, header_line(b, i))

\* The request line is method m0..m1-1, path m1+1..p1-1, version v; h is
\* the header block that follows it.
parse_done(m0, m1, p1, v, h) ==
    IF h.status # "Complete" THEN h
    ELSE PResult("Complete", h.amt, Sub(m0 - 1, m1 - m0),
                 Sub(m1, p1 - m1 - 1), v, h.headers)

parse_line_end(b, m0, m1, p1, v, e) ==
    IF e = 0 THEN PPartial
    ELSE IF e = -1 THEN PError
    ELSE parse_done(m0, m1, p1, v, parse_headers_iter(b, e, <<>>))

parse_after_version(b, m0, m1, p1, v) ==
    IF v = -2 THEN PPartial
    ELSE IF v = -1 THEN PError
    ELSE parse_line_end(b, m0, m1, p1, v, newline(b, p1 + 9))

parse_after_path(b, m0, m1, p1) ==
    IF p1 = 0 THEN PPartial
    ELSE IF p1 = -1 THEN PError
    ELSE parse_after_version(b, m0, m1, p1, parse_version(b, p1 + 1, 0))

parse_after_method(b, m0, m1) ==
    IF m1 = 0 THEN PPartial
    ELSE IF m1 = -1 THEN PError
    ELSE parse_after_path(b, m0, m1, parse_uri(b, m1 + 1))

parse_request_line(b, m0) ==
    IF m0 = 0 THEN PPartial
    ELSE IF m0 = -1 THEN PError
    ELSE parse_after_method(b, m0, parse_token(b, m0))

\* httparse::Request::parse on the whole buffer.
parse(b) == parse_request_line(b, skip_empty_lines(b, 1))

\* ------------------------------------------------------------- the request

EmptyReader == [kind |-> "EmptyReader", n |-> 0]
SizedReader(n) == [kind |-> "SizedReader", n |-> n]

Request(m, p, v, hs, d, b) ==
    [method |-> m, path |-> p, version |-> v, headers |-> hs, data |-> d,
     body |-> b]

\* The value req holds before any request has been decoded.
NoRequest == Request(<<0, 0>>, <<0, 0>>, 0, <<>>, <<>>, EmptyReader)

\* toslice with the sub-slice's length taken for the end of its range.
toslice_len_as_end(a, b) ==
    [ok |-> a.off < Len(b), s |-> <<a.off, a.len>>]

\* decode's closure toslice: the offset of a sub-slice from the base of the
\* buffer, asserted to lie inside it, and the range it spans.
toslice(a, b) ==
    LET start == a.off IN
    [ok |-> start < Len(b), s |-> <<start, start + a.len>>]

DResult(res, r, rest) == [result |-> res, req |-> r, buf |-> rest]

\* The ranges of a Complete tokenizer result r over buffer b.
to_slices(r, b) ==
    [method |-> toslice(r.method, b), path |-> toslice(r.path, b),
     headers |-> [i \in 1..Len(r.headers) |->
                    <<toslice(r.headers[i][1], b), toslice(r.headers[i][2], b)>>]]

asserted(t) ==
    /\ t.method.ok
    /\ t.path.ok
    /\ \A i \in 1..Len(t.headers) : t.headers[i][1].ok /\ t.headers[i][2].ok

\* decode_complete taking the whole buffer for the request's data.
decode_complete_take_all(r, b, t) ==
    IF ~asserted(t) THEN DResult("panicked", NoRequest, b)
    ELSE DResult("Complete",
           Request(t.method.s, t.path.s, r.version,
                   [i \in 1..Len(t.headers) |->
                      <<t.headers[i][1].s, t.headers[i][2].s>>],
                   b, EmptyReader),
           <<>>)

\* The request of a Complete result: its data is the head split off the
\* front of the buffer, the rest stays in the buffer.
decode_complete(r, b, t) ==
    IF ~asserted(t) THEN DResult("panicked", NoRequest, b)
    ELSE DResult("Complete",
           Request(t.method.s, t.path.s, r.version,
                   [i \in 1..Len(t.headers) |->
                      <<t.headers[i][1].s, t.headers[i][2].s>>],
                   SubSeq(b, 1, r.amt), EmptyReader),
           SubSeq(b, r.amt + 1, Len(b)))

\* decode_status reporting a Partial tokenizer status as an error.
decode_status_partial_is_error(r, b) ==
    CASE r.status \in {"Error", "Partial"} -> DResult("Error", NoRequest, b)
      [] OTHER -> decode_complete(r, b, to_slices(r, b))

decode_status(r, b) ==
    CASE r.status = "Error" -> DResult("Error", NoRequest, b)
      [] r.status = "Partial" -> DResult("Incomplete", NoRequest, b)
      [] OTHER -> decode_complete(r, b, to_slices(r, b))

\* decode(buf): Ok(None) leaves the buffer alone, Ok(Some(request)) splits
\* the head off its front, Err is a tokenizer error.  A failed toslice
\* assertion aborts the task.
decode(b) == decode_status(parse(b), b)

\* Request::slice indexes data[s.0..s.1], which aborts when the range is
\* not inside data.
slice_ok(r, s) == s[1] <= s[2] /\ s[2] <= Len(r.data)
slice(r, s) == SubSeq(r.data, s[1] + 1, s[2])

Ok(v) == [kind |-> "ok", val |-> v]
Some(v) == [kind |-> "Some", val |-> v]
None == [kind |-> "None", val |-> <<>>]
Panic(msg) == [kind |-> "panic", val |-> <<msg>>]

\* Request::method: Method::from_bytes accepts any non-empty token.
from_bytes(m) ==
    IF m = <<>> \/ \E i \in 1..Len(m) : ~is_token(m[i])
    THEN Panic("invalide method")
    ELSE Ok(m)

method(r) ==
    IF ~slice_ok(r, r.method) THEN Panic("slice out of range")
    ELSE from_bytes(slice(r, r.method))

path(r) ==
    IF ~slice_ok(r, r.path) THEN Panic("slice out of range")
    ELSE Ok(slice(r, r.path))

version(r) == IF r.version = 0 THEN "HTTP/1.0" ELSE "HTTP/1.1"

\* Iterating Request::headers(): every (name, value) pair in stored order.
headers(r) ==
    [i \in 1..Len(r.headers) |->
        <<slice(r, r.headers[i][1]), slice(r, r.headers[i][2])>>]

GET == <<"G", "E", "T">>
HEAD == <<"H", "E", "A", "D">>
POST == <<"P", "O", "S", "T">>

\* Header names (http::header constants).
CONTENT_LENGTH ==
    <<"c", "o", "n", "t", "e", "n", "t", "-", "l", "e", "n", "g", "t", "h">>
TRANSFER_ENCODING ==
    <<"t", "r", "a", "n", "s", "f", "e", "r", "-", "e", "n", "c", "o", "d",
      "i", "n", "g">>
EXPECT == <<"e", "x", "p", "e", "c", "t">>

\* RequestHeaders::get: its body is unimplemented!(), whatever the key.
get(r, key) == Panic("not yet implemented")

\* RequestHeaders::contains_key: get(key).is_some().
is_some(g) == IF g.kind = "panic" THEN g ELSE Ok(<<g.kind = "Some">>)

contains_key(r, key) == is_some(get(r, key))

Digit(b) ==
    CASE b = "0" -> 0 [] b = "1" -> 1 [] b = "2" -> 2 [] b = "3" -> 3
      [] b = "4" -> 4 [] b = "5" -> 5 [] b = "6" -> 6 [] b = "7" -> 7
      [] b = "8" -> 8 [] b = "9" -> 9 [] OTHER -> -1

RECURSIVE digits_value(_, _)
digits_value(v, acc) ==
    IF v = <<>> THEN acc
    ELSE IF Digit(Head(v)) = -1 THEN -1
    ELSE digits_value(Tail(v), acc * 10 + Digit(Head(v)))

\* str::parse to an unsigned integer: an optional '+', then one or more
\* decimal digits and nothing else; -1 when the text is not one.
parse_uint(v) ==
    LET d == IF v # <<>> /\ Head(v) = "+" THEN Tail(v) ELSE v IN
    IF d = <<>> THEN -1 ELSE digits_value(d, 0)

\* The reader for a Content-Length lookup that gave size: the parsed length
\* when there is one, the unimplemented chunked reader when there is none.
reader_for(size) ==
    IF size.kind = "panic" THEN size
    ELSE IF size.kind = "Some"
    THEN IF parse_uint(size.val) = -1
         THEN Panic("failed to parse content length")
         ELSE Ok(SizedReader(parse_uint(size.val)))
    ELSE Panic("not yet implemented")

\* set_reader_for returning early for GET alone.
set_reader_for_get_only(r, m) ==
    IF m.kind = "panic" THEN m
    ELSE IF m.val = GET THEN Ok(r.body)
    ELSE reader_for(get(r, CONTENT_LENGTH))

set_reader_for(r, m) ==
    IF m.kind = "panic" THEN m
    ELSE IF m.val = GET \/ m.val = HEAD THEN Ok(r.body)
    ELSE reader_for(get(r, CONTENT_LENGTH))

\* Request::set_reader: the body reader it leaves on the request, or the
\* abort it ends in.
set_reader(r) == set_reader_for(r, method(r))

Continue100 == "HTTP/1.1 100 Continue\r\n\r\n"
Value100 ==
    <<"1", "0", "0", "-", "c", "o", "n", "t", "i", "n", "u", "e">>

expect_step(r, raw_rsp, expect) ==
    IF expect.kind = "panic" THEN expect
    ELSE IF expect.kind = "None" THEN Ok(raw_rsp)
    ELSE IF version(r) = "HTTP/1.1" /\ expect.val = Value100
    THEN Ok(Append(raw_rsp, Continue100))
    ELSE Ok(raw_rsp)

\* handle_expect: what the raw response stream holds afterwards, or the
\* abort it ends in.
handle_expect(r, raw_rsp) == expect_step(r, raw_rsp, get(r, EXPECT))

\* ------------------------------------------------------------- the peer

HdrLine(n, s, v) == [name |-> n, sep |-> s, value |-> v]

\* The header lines the modelled peer chooses from.
HeaderPool ==
    { HdrLine(<<"C", "o", "n", "t", "e", "n", "t", "-", "L", "e", "n", "g",
                "t", "h">>, <<SP>>, <<"1", "1">>),
      HdrLine(CONTENT_LENGTH, <<SP>>, <<"1", "x">>),
      HdrLine(<<"T", "r", "a", "n", "s", "f", "e", "r", "-", "E", "n", "c",
                "o", "d", "i", "n", "g">>, <<SP>>,
              <<"c", "h", "u", "n", "k", "e", "d">>),
      HdrLine(<<"E", "x", "p", "e", "c", "t">>, <<SP>>, Value100),
      HdrLine(<<"X">>, <<>>, <<>>) }

Methods == {GET, HEAD, POST}
Paths == {<<"/">>}
Versions == {0, 1}

VersionBytes(v) == HttpPrefix \o (IF v = 0 THEN <<"0">> ELSE <<"1">>)

RECURSIVE EncodeHeaders(_)
EncodeHeaders(hs) ==
    IF hs = <<>> THEN <<>>
    ELSE Head(hs).name \o <<":">> \o Head(hs).sep \o Head(hs).value \o CRLF
         \o EncodeHeaders(Tail(hs))

\* The bytes of a request head as a client writes it.
Encode(m, p, v, hs) ==
    m \o <<SP>> \o p \o <<SP>> \o VersionBytes(v) \o CRLF
    \o EncodeHeaders(hs) \o CRLF

\* The header lists of a first request head: up to MaxHdrs lines of the
\* pool, in any order, no line twice.
HeaderLists ==
    UNION {{hs \in [1..n -> HeaderPool] :
              \A i, j \in 1..n : hs[i] = hs[j] => i = j} : n \in 0..MaxHdrs}

Sent(valid, m, p, v, hs, head) ==
    [valid |-> valid, method |-> m, path |-> p, version |-> v,
     headers |-> [i \in 1..Len(hs) |-> <<hs[i].name, hs[i].value>>],
     head |-> head]

\* A second, pipelined request head: it follows an empty line and carries a
\* header with an empty value.
NextHead ==
    CRLF \o Encode(GET, <<"/", "x">>, 0, <<HdrLine(<<"X">>, <<SP>>, <<>>)>>)

Tails == {<<>>, NextHead}

\* Heads the tokenizer rejects: an unknown version, a space in a header name.
Malformed ==
    { GET \o <<SP, "/", SP>> \o <<"H", "T", "T", "P", "/", "2", ".", "0">>
        \o CRLF \o CRLF,
      Encode(POST, <<"/">>, 1, <<HdrLine(<<"X", SP, "X">>, <<>>, <<"1">>)>>) }

\* ------------------------------------------------------- the state machine

Last(op, result, val, key) ==
    [op |-> op, result |-> result, val |-> val, key |-> key]

Init ==
    /\ \/ \E m \in Methods, p \in Paths, v \in Versions, hs \in HeaderLists,
            t \in Tails :
            /\ stream = Encode(m, p, v, hs) \o t
            /\ sentReq = Sent(TRUE, m, p, v, hs, Encode(m, p, v, hs))
       \/ \E b \in Malformed :
            /\ stream = b
            /\ sentReq = Sent(FALSE, <<>>, <<>>, 0, <<>>, b)
    /\ nsent = 0
    /\ buf = <<>>
    /\ req = NoRequest
    /\ task = "await"
    /\ last = Last("none", "none", <<>>, <<>>)
    /\ out = <<>>
    /\ ndecoded = 0
    /\ retried = FALSE

\* The connection reads from the transport when it has nothing to decode
\* yet or decode has just asked for more: the next k bytes of the stream
\* are appended to the accumulation buffer.
Recv ==
    /\ task = "await"
    /\ last.op \in {"none", "decode"}
    /\ \E k \in 1..(Len(stream) - nsent) :
        /\ buf' = buf \o SubSeq(stream, nsent + 1, nsent + k)
        /\ nsent' = nsent + k
    /\ last' = Last("recv", "ok", <<>>, <<>>)
    /\ UNCHANGED <<stream, req, task, out, sentReq, ndecoded, retried>>

DecodeReturns(d) ==
    /\ buf' = d.buf
    /\ req' = IF d.result = "Complete" THEN d.req ELSE req
    /\ task' = CASE d.result = "Complete" -> "have"
                 [] d.result = "Incomplete" -> "await"
                 [] d.result = "Error" -> "closed"
                 [] OTHER -> "panicked"
    /\ last' = Last("decode", d.result, <<>>, <<>>)
    /\ ndecoded' = IF d.result = "Complete" THEN ndecoded + 1 ELSE ndecoded
    /\ retried' = CASE d.result = "Complete" -> task = "await" /\ retried
                    [] d.result = "Incomplete" ->
                          (task = "await" /\ retried) \/ buf # <<>>
                    [] OTHER -> retried

\* The connection calls decode on the accumulation buffer.
Decode ==
    /\ task \in {"await", "have"}
    /\ DecodeReturns(decode(buf))
    /\ UNCHANGED <<stream, nsent, out, sentReq>>

\* A call that returns normally leaves the task running; one that aborts
\* ends the task.
Returns(op, x, key) ==
    /\ task' = IF x.kind = "panic" THEN "panicked" ELSE task
    /\ last' = Last(op, x.kind, x.val, key)

SetReaderReturns(s) ==
    /\ req' = IF s.kind = "ok" THEN [req EXCEPT !.body = s.val] ELSE req
    /\ task' = IF s.kind = "panic" THEN "panicked" ELSE task
    /\ last' = Last("set_reader", s.kind, IF s.kind = "ok" THEN <<>> ELSE s.val, <<>>)

\* The connection attaches the body reader to the request just decoded.
SetReader ==
    /\ task = "have"
    /\ last.op = "decode"
    /\ SetReaderReturns(set_reader(req))
    /\ UNCHANGED <<stream, nsent, buf, out, sentReq, ndecoded, retried>>

HandleExpectReturns(h) ==
    /\ out' = IF h.kind = "ok" THEN h.val ELSE out
    /\ task' = IF h.kind = "panic" THEN "panicked" ELSE task
    /\ last' = Last("handle_expect", h.kind, IF h.kind = "ok" THEN <<>> ELSE h.val, <<>>)

\* The connection runs the Expect/Continue step on the request, once the
\* body reader has been chosen.
HandleExpect ==
    /\ task = "have"
    /\ last.op \in {"decode", "set_reader"}
    /\ HandleExpectReturns(handle_expect(req, out))
    /\ UNCHANGED <<stream, nsent, buf, req, sentReq, ndecoded, retried>>

\* The header names handler code asks for.
Keys ==
    {CONTENT_LENGTH, EXPECT, <<"h", "o", "s", "t">>}

\* Handler code looks a header up.
Get ==
    /\ task = "have"
    /\ \E key \in Keys : Returns("get", get(req, key), key)
    /\ UNCHANGED <<stream, nsent, buf, req, out, sentReq, ndecoded, retried>>

\* Handler code asks whether a header is present.
ContainsKey ==
    /\ task = "have"
    /\ \E key \in Keys : Returns("contains_key", contains_key(req, key), key)
    /\ UNCHANGED <<stream, nsent, buf, req, out, sentReq, ndecoded, retried>>

Next == Recv \/ Decode \/ SetReader \/ HandleExpect \/ Get \/ ContainsKey

Spec == Init /\ [][Next]_vars

\* ------------------------------------------------- what the claims refer to

UpperAlpha ==
    <<"A", "B", "C", "D", "E", "F", "G", "H", "I", "J", "K", "L", "M", "N",
      "O", "P", "Q", "R", "S", "T", "U", "V", "W", "X", "Y", "Z">>
LowerAlpha ==
    <<"a", "b", "c", "d", "e", "f", "g", "h", "i", "j", "k", "l", "m", "n",
      "o", "p", "q", "r", "s", "t", "u", "v", "w", "x", "y", "z">>

Lower(b) ==
    IF \E i \in 1..26 : UpperAlpha[i] = b
    THEN LowerAlpha[CHOOSE i \in 1..26 : UpperAlpha[i] = b]
    ELSE b

EqIgnoreAsciiCase(a, b) ==
    /\ Len(a) = Len(b)
    /\ \A i \in 1..Len(a) : Lower(a[i]) = Lower(b[i])

\* The headers of r named key, ignoring ASCII case, by position.
Matching(r, key) ==
    {i \in 1..Len(r.headers) : EqIgnoreAsciiCase(headers(r)[i][1], key)}

\* What a lookup of key is documented to give: the value of the first
\* header in arrival order whose name matches, or none.
Lookup(r, key) ==
    IF Matching(r, key) = {} THEN None
    ELSE Some(headers(r)[CHOOSE i \in Matching(r, key) :
                            \A j \in Matching(r, key) : i <= j][2])

Chunked == <<"c", "h", "u", "n", "k", "e", "d">>

HasContentLength(r) == Matching(r, CONTENT_LENGTH) # {}
HasChunked(r) ==
    \E i \in Matching(r, TRANSFER_ENCODING) :
        EqIgnoreAsciiCase(headers(r)[i][2], Chunked)

IsGetOrHead(r) == slice(r, r.method) \in {GET, HEAD}

\* The fields of a request, resolved to bytes.
View(r) ==
    [method |-> slice(r, r.method), path |-> slice(r, r.path),
     version |-> r.version, headers |-> headers(r)]

SentView ==
    [method |-> sentReq.method, path |-> sentReq.path,
     version |-> sentReq.version, headers |-> sentReq.headers]

InRange(r, s) == 0 <= s[1] /\ s[1] <= s[2] /\ s[2] <= Len(r.data)

\* ------------------------------------------------------------------ claims

\* C1: handle_expect writes the interim response "HTTP/1.1 100 Continue"
\* exactly when the request is HTTP/1.1 and its Expect value is byte-exactly
\* 100-continue; otherwise it writes nothing; either way it returns normally.
C1_ExpectContinue ==
    [][HandleExpect =>
         /\ last'.result = "ok"
         /\ out' = IF req.version = 1 /\ Lookup(req, EXPECT) = Some(Value100)
                   THEN Append(out, Continue100) ELSE out]_vars

\* C2: while only a proper prefix of a valid request head has been
\* delivered decode returns Incomplete, never Error; once the rest has
\* arrived it returns Complete with the method, path, version and headers
\* that decode gives for the head delivered at once, which are those sent.
C2_ChunkingInsensitive ==
    (sentReq.valid /\ last.op = "decode") =>
        /\ ndecoded = 0 =>
              /\ nsent < Len(sentReq.head)
              /\ last.result = "Incomplete"
        /\ (ndecoded = 1 /\ last.result = "Complete") =>
              /\ nsent >= Len(sentReq.head)
              /\ View(req) = View(decode(sentReq.head).req)
              /\ View(req) = SentView

C2_Witness ==
    /\ sentReq.valid
    /\ last.op = "decode"
    /\ last.result = "Complete"
    /\ ndecoded = 1
    /\ retried
    /\ Len(req.headers) = 2

\* C3: for a request whose method is GET or HEAD, set_reader returns
\* normally and leaves the body reader Empty, whatever its headers.
C3_GetHeadEmpty ==
    (last.op = "set_reader" /\ IsGetOrHead(req)) =>
        /\ last.result = "ok"
        /\ req.body = EmptyReader

C3_Witness ==
    /\ last.op = "set_reader"
    /\ slice(req, req.method) = HEAD
    /\ HasContentLength(req)
    /\ HasChunked(req)
    /\ req.body = EmptyReader

\* C4: for a request that is neither GET nor HEAD and carries both a
\* Content-Length and a chunked Transfer-Encoding header, body-reader
\* selection ends in an Error outcome and attaches no Fixed or Chunked
\* reader.
C4_AmbiguousFramingError ==
    (last.op = "set_reader" /\ ~IsGetOrHead(req) /\ HasContentLength(req)
       /\ HasChunked(req)) =>
        /\ last.result = "Error"
        /\ req.body = EmptyReader

\* C5: for a request that is neither GET nor HEAD and carries neither a
\* Content-Length nor a chunked Transfer-Encoding header, set_reader
\* returns normally and leaves the body reader Empty.
C5_NoLengthEmpty ==
    (last.op = "set_reader" /\ ~IsGetOrHead(req) /\ ~HasContentLength(req)
       /\ ~HasChunked(req)) =>
        /\ last.result = "ok"
        /\ req.body = EmptyReader

\* C6: for a request that is neither GET nor HEAD and whose Content-Length
\* value is not a non-negative integer, body-reader selection ends in a
\* reported error, not in an abort of the connection task, and attaches no
\* body reader.
C6_BadLengthReported ==
    (last.op = "set_reader" /\ ~IsGetOrHead(req) /\ HasContentLength(req)
       /\ parse_uint(Lookup(req, CONTENT_LENGTH).val) = -1) =>
        /\ last.result = "Error"
        /\ task # "panicked"
        /\ req.body = EmptyReader

\* C7: get returns the value of the first header, in arrival order, whose
\* name equals the queried name ignoring ASCII case, and none when there is
\* no such header; contains_key is true exactly when get returns a value.
C7_FirstMatch ==
    /\ last.op = "get" =>
          /\ last.result = Lookup(req, last.key).kind
          /\ last.val = Lookup(req, last.key).val
    /\ last.op = "contains_key" =>
          /\ last.result = "ok"
          /\ last.val = <<Lookup(req, last.key).kind = "Some">>

\* C8: for a request that is neither GET nor HEAD and carries a
\* Content-Length header with the non-negative integer value n and no
\* chunked Transfer-Encoding, decode followed by set_reader gives the
\* method, path and version as sent and a Fixed-length reader of exactly n.
C8_FixedLength ==
    (last.op = "set_reader" /\ ndecoded = 1 /\ ~IsGetOrHead(req)
       /\ HasContentLength(req) /\ ~HasChunked(req)
       /\ parse_uint(Lookup(req, CONTENT_LENGTH).val) # -1) =>
        /\ last.result = "ok"
        /\ req.body = SizedReader(parse_uint(Lookup(req, CONTENT_LENGTH).val))
        /\ View(req).method = sentReq.method
        /\ View(req).path = sentReq.path
        /\ View(req).version = sentReq.version

\* C9: a decode that returns Incomplete leaves the accumulation buffer as
\* it was; a decode that returns Complete removes exactly the bytes of the
\* request head from the front of the buffer, hands them to the request,
\* and leaves every later byte in the buffer, in order.
C9_DecodeFrame ==
    [][(last'.op = "decode" /\ Decode) =>
         /\ last'.result = "Incomplete" => buf' = buf /\ req' = req
         /\ last'.result = "Complete" =>
               /\ req'.data \o buf' = buf
               /\ Len(req'.data) = parse(buf).amt
               /\ ndecoded = 0 => req'.data = sentReq.head]_vars

C9_Witness ==
    /\ last.op = "decode"
    /\ last.result = "Complete"
    /\ ndecoded = 1
    /\ retried
    /\ buf # <<>>
    /\ req.data = sentReq.head

\* C10: every byte range stored in a decoded request (method, path, each
\* header name and value, empty values included) lies inside the request's
\* own data, and decode's range assertion never fails.
C10_RangesInBounds ==
    /\ last.op = "decode" => last.result # "panicked"
    /\ ndecoded > 0 =>
          /\ InRange(req, req.method)
          /\ InRange(req, req.path)
          /\ \A i \in 1..Len(req.headers) :
                InRange(req, req.headers[i][1]) /\ InRange(req, req.headers[i][2])

C10_Witness ==
    /\ ndecoded = 2
    /\ last.op = "decode"
    /\ last.result = "Complete"
    /\ \E i \in 1..Len(req.headers) :
          /\ req.headers[i][2][1] = req.headers[i][2][2]
          /\ InRange(req, req.headers[i][2])

====
